---- MODULE Spec2Model ----
(***************************************************************************)
(* Model of the data pipeline of fed_dashboard.py: the series fetcher      *)
(* (fetch_fred_data), the fetch loop with its stop condition, the merge    *)
(* of the fetched frames (outer join on date, sort, forward fill), the     *)
(* display table (scaling and renaming) and the derived metrics (latest    *)
(* delta, composition, growth).                                            *)
(*                                                                         *)
(* Floating point numbers are modelled as exact fractions num/den with     *)
(* den >= 0; den = 0 encodes the IEEE special values: 0/0 is NaN (pandas'  *)
(* representation of an absent cell), 1/0 is +inf and -1/0 is -inf.        *)
(* Rounding and the sign of zero are not modelled.                         *)
(***************************************************************************)
EXTENDS Integers, Sequences, FiniteSets, TLC

\* ------------------------------------------------------------------ bounds
\* Observation dates are the weeks 1..MaxDate.
MaxDate == 3

\* ------------------------------------------------------------- arithmetic
Abs(n) == IF n < 0 THEN -n ELSE n

Sign(n) == IF n < 0 THEN -1 ELSE IF n > 0 THEN 1 ELSE 0

RECURSIVE Gcd(_, _)
Gcd(a, b) == IF b = 0 THEN a ELSE Gcd(b, a % b)

\* The float n/d; d = 0 gives NaN or a signed infinity.
Frac(n, d) ==
    IF d = 0 THEN [num |-> Sign(n), den |-> 0]
    ELSE LET g == Gcd(Abs(n), Abs(d))
         IN  [num |-> (Sign(d) * n) \div g, den |-> Abs(d) \div g]

NaN == [num |-> 0, den |-> 0]

Num(n) == [num |-> n, den |-> 1]

IsNaN(x) == x.den = 0 /\ x.num = 0

IsInf(x) == x.den = 0 /\ x.num # 0

IsFinite(x) == x.den # 0

\* pandas notna(): the cell holds a value
NotNa(x) == ~IsNaN(x)

\* Python's x == 0 on floats (False for NaN)
IsZero(x) == x.den # 0 /\ x.num = 0

\* float division: x/0 is a signed infinity, 0/0 and inf/inf are NaN
FDiv(a, b) ==
    IF IsNaN(a) \/ IsNaN(b) THEN NaN
    ELSE IF IsInf(a) /\ IsInf(b) THEN NaN
    ELSE IF IsInf(a) THEN Frac(a.num * (IF b.num < 0 THEN -1 ELSE 1), 0)
    ELSE IF IsInf(b) THEN Num(0)
    ELSE Frac(a.num * b.den, a.den * b.num)

\* float multiplication: 0 * inf is NaN
FMul(a, b) ==
    IF IsNaN(a) \/ IsNaN(b) THEN NaN
    ELSE IF IsInf(a) \/ IsInf(b) THEN Frac(Sign(a.num) * Sign(b.num), 0)
    ELSE Frac(a.num * b.num, a.den * b.den)

\* float subtraction: inf - inf is NaN
FSub(a, b) ==
    IF IsNaN(a) \/ IsNaN(b) THEN NaN
    ELSE IF IsInf(a) /\ IsInf(b) THEN (IF a.num = b.num THEN NaN ELSE a)
    ELSE IF IsInf(a) THEN a
    ELSE IF IsInf(b) THEN Frac(-b.num, 0)
    ELSE Frac(a.num * b.den - b.num * a.den, a.den * b.den)

\* ------------------------------------------------- pd.to_numeric(coerce)
\* A value string is a sequence of characters.
DigitChars == <<"0", "1", "2", "3", "4", "5", "6", "7", "8", "9">>

IsDigit(c) == \E i \in 1..10 : DigitChars[i] = c

DigitVal(c) == (CHOOSE i \in 1..10 : DigitChars[i] = c) - 1

RECURSIVE Pow10(_)
Pow10(k) == IF k = 0 THEN 1 ELSE 10 * Pow10(k - 1)

\* value of a (possibly empty) digit string
RECURSIVE DigitsVal(_)
DigitsVal(s) ==
    IF s = <<>> THEN 0
    ELSE 10 * DigitsVal(SubSeq(s, 1, Len(s) - 1)) + DigitVal(s[Len(s)])

AllDigits(s) == \A i \in 1..Len(s) : IsDigit(s[i])

\* an unsigned decimal literal: digits, at most one point, at least one digit
ParseUnsigned(s) ==
    LET dots == {i \in 1..Len(s) : s[i] = "."}
    IN  IF dots = {}
        THEN IF s # <<>> /\ AllDigits(s) THEN Num(DigitsVal(s)) ELSE NaN
        ELSE IF Cardinality(dots) > 1 THEN NaN
        ELSE LET p    == CHOOSE i \in dots : TRUE
                 ip   == SubSeq(s, 1, p - 1)
                 fp   == SubSeq(s, p + 1, Len(s))
             IN  IF AllDigits(ip) /\ AllDigits(fp) /\ Len(ip) + Len(fp) > 0
                 THEN Frac(DigitsVal(ip) * Pow10(Len(fp)) + DigitsVal(fp),
                           Pow10(Len(fp)))
                 ELSE NaN

\* pd.to_numeric(value, errors='coerce') on one string: the number it
\* denotes, NaN when it does not parse
ToNumeric(s) ==
    IF s # <<>> /\ s[1] = "-" THEN FMul(Num(-1), ParseUnsigned(Tail(s)))
    ELSE IF s # <<>> /\ s[1] = "+" THEN ParseUnsigned(Tail(s))
    ELSE ParseUnsigned(s)

\* ---------------------------------------------------------- configuration
\* FRED_SERIES, in insertion order: <<label, series identifier>>
FRED_SERIES ==
    << <<"Total Assets", "WALCL">>,
       <<"Treasury Securities", "TREAST">>,
       <<"Mortgage-Backed Securities", "WSHOMCB">>,
       <<"Bank Reserves", "WRBWFRBL">>,
       <<"Reverse Repo Foreign", "WLRRAFOIAL">>,
       <<"Central Bank Liquidity Swaps", "SWPT">>,
       <<"Loans", "WLCFLL">>,
       <<"Securities in Custody", "WFCDA">>,
       <<"Repo Operations", "WORAL">>,
       <<"Other Assets", "WAOAL">> >>

\* list(FRED_SERIES.keys())
Labels == {FRED_SERIES[i][1] : i \in 1..Len(FRED_SERIES)}

\* FRED_SERIES[asset_name]
SeriesId(label) ==
    FRED_SERIES[CHOOSE i \in 1..Len(FRED_SERIES) : FRED_SERIES[i][1] = label][2]

\* reverse_series_mapping = {v: k for k, v in FRED_SERIES.items()}: the
\* label of the last entry that maps to the identifier
ReverseSeriesMapping(id) ==
    LET idx == {i \in 1..Len(FRED_SERIES) : FRED_SERIES[i][2] = id}
        last == CHOOSE i \in idx : \A j \in idx : j <= i
    IN  FRED_SERIES[last][1]

\* the components offered for selection in the model
SelectableLabels == {"Total Assets", "Treasury Securities"}

\* the multiselect's value: distinct labels, in the order chosen
Selections ==
    {s \in UNION {[1..n -> SelectableLabels] : n \in 0..Cardinality(SelectableLabels)} :
        \A i, j \in 1..Len(s) : i # j => s[i] # s[j]}

\* the sidebar's API key field, as characters
ApiKeys == {<<>>, <<" ">>, <<"k">>}

\* str.strip()
RECURSIVE Strip(_)
Strip(s) ==
    IF s = <<>> THEN s
    ELSE IF s[1] = " " THEN Strip(Tail(s))
    ELSE IF s[Len(s)] = " " THEN Strip(SubSeq(s, 1, Len(s) - 1))
    ELSE s

\* `not api_key or api_key.strip() == ""`
KeyMissing(key) == key = <<>> \/ Strip(key) = <<>>

\* ------------------------------------------------------- provider replies
Dates == 1..MaxDate

\* the value strings the provider sends; "." is its missing-value sentinel
ValueStrings == {<<".">>, <<"0">>, <<"2", ".", "5">>}

RECURSIVE SortedSeq(_)
\* the elements of a finite set of integers, ascending
SortedSeq(S) ==
    IF S = {} THEN <<>>
    ELSE LET m == CHOOSE x \in S : \A y \in S : x <= y
         IN  <<m>> \o SortedSeq(S \ {m})

\* the observations the provider reports: one {date, value} pair for each
\* date of D, oldest first
ObsSeq(D, f) ==
    LET ds == SortedSeq(D)
    IN  [i \in 1..Len(ds) |-> [date |-> ds[i], value |-> f[ds[i]]]]

ObsLists ==
    UNION {{ObsSeq(D, f) : f \in [D -> ValueStrings]} : D \in SUBSET Dates}

\* What requests.get meets: no connection, an HTTP error status, a body
\* that is not JSON, or a JSON object with an observations list.
Responses ==
    {[net |-> "error", status |-> 0, json |-> "bad", observations |-> <<>>],
     [net |-> "ok", status |-> 403, json |-> "bad", observations |-> <<>>],
     [net |-> "ok", status |-> 500, json |-> "bad", observations |-> <<>>],
     [net |-> "ok", status |-> 200, json |-> "bad", observations |-> <<>>]}
    \cup {[net |-> "ok", status |-> 200, json |-> "ok", observations |-> o] :
            o \in ObsLists}

\* ------------------------------------------------------------ data frames
\* A frame: its value columns in order and its rows; a row is a date and a
\* value (NaN when absent) for every column.  A column name is the sequence
\* of the parts it is formatted from.
Frame(cols, rows) == [isNone |-> FALSE, cols |-> cols, rows |-> rows]

\* Python's None, also the value of a name not assigned yet
None == [isNone |-> TRUE, cols |-> <<>>, rows |-> <<>>]

ColSet(cols) == {cols[i] : i \in 1..Len(cols)}

DatesOf(t) == {t.rows[i].date : i \in 1..Len(t.rows)}

RowOf(t, d) == t.rows[CHOOSE i \in 1..Len(t.rows) : t.rows[i].date = d]

\* df.empty
IsEmpty(t) == Len(t.rows) = 0 \/ Len(t.cols) = 0

\* ------------------------------------------------------- fetch_fred_data
\* requests.get, raise_for_status or response.json() raises
Raises(resp) ==
    \/ resp.net = "error"
    \/ resp.status >= 400
    \/ resp.json = "bad"

\* DropNa with the unparseable values kept as zero instead of dropped
DropNaZeroFill(rows) ==
    [i \in 1..Len(rows) |->
        [date |-> rows[i].date,
         value |-> IF NotNa(rows[i].value) THEN rows[i].value ELSE Num(0)]]

\* df.dropna(subset=['value']): the rows whose value is not NaN, in order
RECURSIVE DropNa(_)
DropNa(rows) ==
    IF rows = <<>> THEN <<>>
    ELSE IF NotNa(Head(rows).value) THEN <<Head(rows)>> \o DropNa(Tail(rows))
    ELSE DropNa(Tail(rows))

\* the observations with the value column converted by pd.to_numeric
ParsedRows(observations) ==
    [i \in 1..Len(observations) |->
        [date |-> observations[i].date,
         value |-> ToNumeric(observations[i].value)]]

fetch_fred_data(series_id, api_key, resp) ==
    IF KeyMissing(api_key) THEN None
    ELSE IF Raises(resp) THEN None
    ELSE IF resp.observations = <<>> THEN None
    ELSE LET df == DropNa(ParsedRows(resp.observations))
         IN  IF Len(df) = 0 THEN None
             ELSE Frame(<< <<series_id>> >>,
                        [i \in 1..Len(df) |->
                            [date |-> df[i].date,
                             vals |-> [c \in {<<series_id>>} |-> df[i].value]]])

\* -------------------------------------------------------------- the merge
\* the join of two frames over the dates in keys (ascending)
JoinOn(left, right, keys) ==
    LET cols == left.cols \o right.cols
        cell(d, c) ==
            IF c \in ColSet(left.cols)
            THEN IF d \in DatesOf(left) THEN RowOf(left, d).vals[c] ELSE NaN
            ELSE IF d \in DatesOf(right) THEN RowOf(right, d).vals[c] ELSE NaN
    IN  Frame(cols,
              [i \in 1..Len(keys) |->
                  [date |-> keys[i],
                   vals |-> [c \in ColSet(cols) |-> cell(keys[i], c)]]])

\* MergeOuter as an inner join: only the dates both frames have
MergeInner(left, right) ==
    JoinOn(left, right, SortedSeq(DatesOf(left) \cap DatesOf(right)))

\* MergeOuter as a left join: only the dates of the left frame
MergeLeft(left, right) == JoinOn(left, right, SortedSeq(DatesOf(left)))

\* pd.merge(left, right, on='date', how='outer'): one row per date of
\* either frame, in key order; a frame without the date contributes NaN
MergeOuter(left, right) ==
    JoinOn(left, right, SortedSeq(DatesOf(left) \cup DatesOf(right)))

\* fed_data = all_data[0]; for df in all_data[1:]: fed_data = merge(...)
RECURSIVE MergeLoop(_, _)
MergeLoop(fed, rest) ==
    IF rest = <<>> THEN fed
    ELSE MergeLoop(MergeOuter(fed, Head(rest)), Tail(rest))

\* insertion of a row into rows sorted by date, after the rows of its date
RECURSIVE InsertByDate(_, _)
InsertByDate(r, rows) ==
    IF rows = <<>> THEN <<r>>
    ELSE IF r.date < Head(rows).date THEN <<r>> \o rows
    ELSE <<Head(rows)>> \o InsertByDate(r, Tail(rows))

\* the rows in ascending date order
RECURSIVE SortRows(_)
SortRows(rows) ==
    IF rows = <<>> THEN <<>>
    ELSE InsertByDate(rows[Len(rows)], SortRows(SubSeq(rows, 1, Len(rows) - 1)))

\* DataFrame.sort_values('date')
SortValues(t) == Frame(t.cols, SortRows(t.rows))

\* FfillCell without the fill: the cell as it is
FfillCellNoFill(t, c, i) == t.rows[i].vals[c]

\* the forward-filled value of column c at row i
RECURSIVE FfillCell(_, _, _)
FfillCell(t, c, i) ==
    IF NotNa(t.rows[i].vals[c]) THEN t.rows[i].vals[c]
    ELSE IF i = 1 THEN NaN
    ELSE FfillCell(t, c, i - 1)

\* DataFrame.ffill()
Ffill(t) ==
    Frame(t.cols,
          [i \in 1..Len(t.rows) |->
              [date |-> t.rows[i].date,
               vals |-> [c \in ColSet(t.cols) |-> FfillCell(t, c, i)]]])

\* lines 148-152: the merged table of a non-empty all_data
MergeAll(all) == Ffill(SortValues(MergeLoop(Head(all), Tail(all))))

\* ---------------------------------------------------------- display table
\* ScaleToBillions applied to a frame that was scaled already
ScaleTwice(t) ==
    Frame(t.cols,
          [i \in 1..Len(t.rows) |->
              [date |-> t.rows[i].date,
               vals |-> [c \in ColSet(t.cols) |->
                            FDiv(FDiv(t.rows[i].vals[c], Num(1000)),
                                 Num(1000))]]])

\* lines 155-158: every value column divided by 1000
ScaleToBillions(t) ==
    Frame(t.cols,
          [i \in 1..Len(t.rows) |->
              [date |-> t.rows[i].date,
               vals |-> [c \in ColSet(t.cols) |->
                            FDiv(t.rows[i].vals[c], Num(1000))]]])

\* the new name of a column under rename(columns=reverse_series_mapping)
NewName(c) ==
    IF \E i \in 1..Len(FRED_SERIES) : <<FRED_SERIES[i][2]>> = c
    THEN <<ReverseSeriesMapping(c[1])>>
    ELSE c

\* the column that NewName turns into n
OldName(t, n) == CHOOSE c \in ColSet(t.cols) : NewName(c) = n

\* lines 161-162: DataFrame.rename(columns=reverse_series_mapping)
RenameColumns(t) ==
    LET cols == [i \in 1..Len(t.cols) |-> NewName(t.cols[i])]
    IN  Frame(cols,
              [i \in 1..Len(t.rows) |->
                  [date |-> t.rows[i].date,
                   vals |-> [n \in ColSet(cols) |->
                                t.rows[i].vals[OldName(t, n)]]]])

\* lines 155-162
DisplayOf(fed) == RenameColumns(ScaleToBillions(fed))

\* ------------------------------------------------------------ key metrics
\* ChangePct without the guard on a zero previous value
ChangePctUnguarded(change, prev_val) == FMul(FDiv(change, prev_val), Num(100))

\* line 220: (change / prev_val * 100) if prev_val != 0 else 0
ChangePct(change, prev_val) ==
    IF ~IsZero(prev_val) THEN FMul(FDiv(change, prev_val), Num(100))
    ELSE Num(0)

\* lines 217-220 for one asset
MetricOf(t, asset) ==
    LET current_val == t.rows[Len(t.rows)].vals[<<asset>>]
        prev_val    == t.rows[Len(t.rows) - 1].vals[<<asset>>]
        change      == FSub(current_val, prev_val)
    IN  [label |-> asset, value |-> current_val, change |-> change,
         change_pct |-> ChangePct(change, prev_val)]

\* lines 215-236: one st.metric per selected asset that has a column
RECURSIVE MetricsOf(_, _)
MetricsOf(t, assets) ==
    IF assets = <<>> THEN <<>>
    ELSE IF <<Head(assets)>> \in ColSet(t.cols)
         THEN <<MetricOf(t, Head(assets))>> \o MetricsOf(t, Tail(assets))
         ELSE MetricsOf(t, Tail(assets))

\* ------------------------------------------------------------ composition
TotalCol == <<"Total Assets">>

\* the columns a derived frame adds to t: for every column of `of`, in
\* order, the column with each suffix appended to its name
RECURSIVE DerivedCols(_, _)
DerivedCols(of, suffixes) ==
    IF of = <<>> THEN <<>>
    ELSE [i \in 1..Len(suffixes) |-> Head(of) \o <<suffixes[i]>>]
         \o DerivedCols(Tail(of), suffixes)

\* the columns of cols that satisfy the loop's filter col != 'Total Assets'
RECURSIVE NonTotal(_)
NonTotal(cols) ==
    IF cols = <<>> THEN <<>>
    ELSE IF Head(cols) # TotalCol THEN <<Head(cols)>> \o NonTotal(Tail(cols))
    ELSE NonTotal(Tail(cols))

\* line 289: (comp_data[col] / comp_data['Total Assets']) * 100 at row i
PctCell(t, c, i) ==
    FMul(FDiv(t.rows[i].vals[c], t.rows[i].vals[TotalCol]), Num(100))

\* lines 286-289: display_data with a _pct column for every other column
CompositionOf(t) ==
    LET added == DerivedCols(NonTotal(t.cols), <<"_pct">>)
        cols  == t.cols \o added
    IN  Frame(cols,
              [i \in 1..Len(t.rows) |->
                  [date |-> t.rows[i].date,
                   vals |-> [c \in ColSet(cols) |->
                       IF c \in ColSet(t.cols) THEN t.rows[i].vals[c]
                       ELSE PctCell(t, SubSeq(c, 1, Len(c) - 1), i)]]])

\* ----------------------------------------------------------------- growth
\* pct_change() and pct_change(52)
WeeklyLag == 1
AnnualLag == 52

\* Series.pct_change(periods) at row i: the column is forward filled, then
\* divided by itself shifted by periods rows, minus 1
PctChange(t, c, periods, i) ==
    IF i <= periods THEN FSub(FDiv(FfillCell(t, c, i), NaN), Num(1))
    ELSE FSub(FDiv(FfillCell(t, c, i), FfillCell(t, c, i - periods)), Num(1))

\* lines 330-331: pct_change(periods) * 100
GrowthCell(t, c, periods, i) == FMul(PctChange(t, c, periods, i), Num(100))

\* lines 327-331: display_data with two growth columns for every column
GrowthOf(t) ==
    LET added == DerivedCols(t.cols, <<"_weekly_growth", "_annual_growth">>)
        cols  == t.cols \o added
    IN  Frame(cols,
              [i \in 1..Len(t.rows) |->
                  [date |-> t.rows[i].date,
                   vals |-> [c \in ColSet(cols) |->
                       IF c \in ColSet(t.cols) THEN t.rows[i].vals[c]
                       ELSE GrowthCell(t, SubSeq(c, 1, Len(c) - 1),
                                (IF c[Len(c)] = "_weekly_growth"
                                 THEN WeeklyLag ELSE AnnualLag), i)]]])

\* ------------------------------------------------------------------ state
VARIABLES
    pc,                 \* where the script is
    api_key,            \* the sidebar's API key
    selected_assets,    \* the sidebar's selection, a sequence of labels
    idx,                \* position of the fetch loop in selected_assets
    response,           \* what the provider answered to the last request
    df,                 \* what fetch_fred_data returned to the loop
    blocked,            \* requests.get was called and has not returned
    requests,           \* the requests sent so far: series and status met
    all_data,           \* the frames fetched successfully
    successful_fetches,
    messages,           \* st.warning / st.error / st.success calls so far
    fed_data,
    display_data,
    metrics,            \* the st.metric calls of the Key Metrics column
    comp_data,
    growth_data

vars == <<pc, api_key, blocked, selected_assets, idx, response, df, requests,
          all_data,
          successful_fetches, messages, fed_data, display_data, metrics,
          comp_data, growth_data>>

NoResponse == [net |-> "none", status |-> 0, json |-> "bad", observations |-> <<>>]

Msg(kind, text, asset) == [kind |-> kind, text |-> text, asset |-> asset]

Init ==
    /\ pc = "key_check"
    /\ api_key \in ApiKeys
    /\ selected_assets \in Selections
    /\ idx = 1
    /\ response = NoResponse
    /\ df = None
    /\ blocked = FALSE
    /\ requests = <<>>
    /\ all_data = <<>>
    /\ successful_fetches = 0
    /\ messages = <<>>
    /\ fed_data = None
    /\ display_data = None
    /\ metrics = <<>>
    /\ comp_data = None
    /\ growth_data = None

\* lines 42-44: without an API key the script warns and stops
KeyCheck ==
    /\ pc = "key_check"
    /\ IF KeyMissing(api_key)
       THEN /\ messages' = Append(messages, Msg("warning", "enter key", ""))
            /\ pc' = "stopped"
       ELSE /\ pc' = "fetch"
            /\ UNCHANGED messages
    /\ UNCHANGED <<api_key, blocked, selected_assets, idx, response, df, requests, all_data,
                   successful_fetches, fed_data, display_data, metrics,
                   comp_data, growth_data>>

\* NextAsset for a loop that a failed fetch ends
NextAssetAbort(i, got) == IF got = None THEN Len(selected_assets) + 1 ELSE i + 1

\* the index of the asset the loop turns to after the one at i
NextAsset(i, got) == i + 1

\* lines 134-141: one iteration of the fetch loop
FetchStep ==
    /\ pc = "fetch"
    /\ ~blocked
    /\ idx <= Len(selected_assets)
    /\ \E resp \in Responses :
        LET asset_name == selected_assets[idx]
            series_id  == SeriesId(asset_name)
            got        == fetch_fred_data(series_id, api_key, resp)
        IN  /\ response' = resp
            /\ df' = got
            /\ requests' = Append(requests,
                                  [series |-> series_id,
                                   status |-> IF resp.net = "error" THEN 0
                                              ELSE resp.status])
            /\ IF got # None /\ ~IsEmpty(got)
               THEN /\ all_data' = Append(all_data, got)
                    /\ successful_fetches' = successful_fetches + 1
                    /\ UNCHANGED messages
               ELSE /\ messages' = Append(messages,
                                     Msg("warning", "could not fetch", asset_name))
                    /\ UNCHANGED <<all_data, successful_fetches>>
            /\ idx' = NextAsset(idx, got)
    /\ UNCHANGED <<pc, api_key, blocked, selected_assets, fed_data, display_data,
                   metrics, comp_data, growth_data>>

\* NothingFetched for a stop condition that never fires
NothingFetchedNever(n) == n < 0

\* line 108: requests.get(url, params=params) is called with no timeout; when
\* the provider never answers, the call does not return and the loop stays
\* in this iteration
NoReply ==
    /\ pc = "fetch"
    /\ ~blocked
    /\ idx <= Len(selected_assets)
    /\ blocked' = TRUE
    /\ UNCHANGED <<pc, api_key, selected_assets, idx, response, df, requests,
                   all_data, successful_fetches, messages, fed_data,
                   display_data, metrics, comp_data, growth_data>>

\* line 143: successful_fetches == 0
NothingFetched(n) == n = 0

\* lines 143-145: after the loop, stop when nothing was fetched.  The last
\* reply and the loop's df are not read again and are forgotten here.
StopCheck ==
    /\ pc = "fetch"
    /\ idx > Len(selected_assets)
    /\ IF NothingFetched(successful_fetches)
       THEN /\ messages' = Append(messages, Msg("error", "no data", ""))
            /\ pc' = "stopped"
       ELSE /\ pc' = "merge"
            /\ UNCHANGED messages
    /\ response' = NoResponse
    /\ df' = None
    /\ UNCHANGED <<api_key, blocked, selected_assets, idx, requests, all_data,
                   successful_fetches, fed_data, display_data, metrics,
                   comp_data, growth_data>>

\* lines 147-152
Merge ==
    /\ pc = "merge"
    /\ fed_data' = MergeAll(all_data)
    /\ pc' = "display"
    /\ UNCHANGED <<api_key, blocked, selected_assets, idx, response, df, requests, all_data,
                   successful_fetches, messages, display_data, metrics,
                   comp_data, growth_data>>

\* lines 154-165: the display table, then the success message
Display ==
    /\ pc = "display"
    /\ display_data' = DisplayOf(fed_data)
    /\ messages' = Append(messages, Msg("success", "loaded", ""))
    /\ pc' = "metrics"
    /\ UNCHANGED <<api_key, blocked, selected_assets, idx, response, df, requests, all_data,
                   successful_fetches, fed_data, metrics, comp_data,
                   growth_data>>

\* lines 211-238
KeyMetrics ==
    /\ pc = "metrics"
    /\ IF Len(display_data.rows) > 1
       THEN /\ metrics' = MetricsOf(display_data, selected_assets)
            /\ UNCHANGED messages
       ELSE /\ messages' = Append(messages,
                                  Msg("warning", "insufficient data", ""))
            /\ UNCHANGED metrics
    /\ pc' = "composition"
    /\ UNCHANGED <<api_key, blocked, selected_assets, idx, response, df, requests, all_data,
                   successful_fetches, fed_data, display_data, comp_data,
                   growth_data>>

\* lines 284-307
Composition ==
    /\ pc = "composition"
    /\ IF TotalCol \in ColSet(display_data.cols)
       THEN /\ comp_data' = CompositionOf(display_data)
            /\ IF Len(display_data.cols) > 1
               THEN UNCHANGED messages
               ELSE messages' = Append(messages,
                                       Msg("warning", "no composition data", ""))
       ELSE /\ messages' = Append(messages,
                                  Msg("warning", "total assets needed", ""))
            /\ UNCHANGED comp_data
    /\ pc' = "growth"
    /\ UNCHANGED <<api_key, blocked, selected_assets, idx, response, df, requests, all_data,
                   successful_fetches, fed_data, display_data, metrics,
                   growth_data>>

\* lines 327-331
Growth ==
    /\ pc = "growth"
    /\ growth_data' = GrowthOf(display_data)
    /\ pc' = "done"
    /\ UNCHANGED <<api_key, blocked, selected_assets, idx, response, df, requests, all_data,
                   successful_fetches, messages, fed_data, display_data,
                   metrics, comp_data>>

Next ==
    \/ KeyCheck
    \/ FetchStep
    \/ NoReply
    \/ StopCheck
    \/ Merge
    \/ Display
    \/ KeyMetrics
    \/ Composition
    \/ Growth

Spec == Init /\ [][Next]_vars

\* the script runs to its end without outside scheduling: a step that can
\* be taken is taken
FairSpec == Spec /\ WF_vars(Next)

\* ----------------------------------------------------------------- claims
\* the script has left the fetch loop and passed its stop condition
Merged == fed_data # None

\* the value of frame t's own latest observation dated at or before d, NaN
\* when it has none
LatestAtOrBefore(t, d) ==
    LET earlier == {e \in DatesOf(t) : e <= d}
    IN  IF earlier = {} THEN NaN
        ELSE RowOf(t, CHOOSE e \in earlier : \A f \in earlier : f <= e).vals[t.cols[1]]

\* C1: in the merged table the cell of row timestamp t and fetched series s
\* is s's own latest observation dated at or before t, and is absent when s
\* has no observation dated at or before t.
C1_ForwardFill ==
    Merged =>
        \A i \in 1..Len(fed_data.rows) : \A k \in 1..Len(all_data) :
            /\ all_data[k].cols[1] \in ColSet(fed_data.cols)
            /\ fed_data.rows[i].vals[all_data[k].cols[1]]
                 = LatestAtOrBefore(all_data[k], fed_data.rows[i].date)

\* a series whose first observation comes after the first row, and whose
\* value is carried over a later date it has no observation for
C1_Witness ==
    /\ Merged
    /\ \E k \in 1..Len(all_data) : \E i, j \in 1..Len(fed_data.rows) :
        LET c == all_data[k].cols[1]
        IN  /\ i < j
            /\ IsNaN(fed_data.rows[i].vals[c])
            /\ fed_data.rows[j].date \notin DatesOf(all_data[k])
            /\ NotNa(fed_data.rows[j].vals[c])

\* the timestamps of all fetched frames
AllDates == UNION {DatesOf(all_data[k]) : k \in 1..Len(all_data)}

\* C2: the merged table has exactly one row for each distinct timestamp of
\* the fetched frames, no other rows, and its rows are in strictly ascending
\* timestamp order.
C2_UnionOfTimestamps ==
    Merged =>
        /\ DatesOf(fed_data) = AllDates
        /\ Len(fed_data.rows) = Cardinality(AllDates)
        /\ \A i, j \in 1..Len(fed_data.rows) :
              i < j => fed_data.rows[i].date < fed_data.rows[j].date

\* X observed at weeks 1 and 3, Y at weeks 1 and 2: three rows
C2_Witness ==
    /\ Merged
    /\ Len(all_data) = 2
    /\ DatesOf(all_data[1]) = {1, 3}
    /\ DatesOf(all_data[2]) = {1, 2}
    /\ Len(fed_data.rows) = 3

\* the messages of one kind
MessagesOf(kind) == {i \in 1..Len(messages) : messages[i].kind = kind}

\* C3: when no selected series is fetched successfully (also when none is
\* selected) the run stops with the 'no data' error before the merge: no
\* merged, display, composition or growth table and no success message.
C3_NoDataHalts ==
    (/\ pc \notin {"key_check", "fetch"}
     /\ ~KeyMissing(api_key)
     /\ all_data = <<>>) =>
        /\ pc = "stopped"
        /\ messages # <<>>
        /\ messages[Len(messages)] = Msg("error", "no data", "")
        /\ MessagesOf("success") = {}
        /\ fed_data = None
        /\ display_data = None
        /\ comp_data = None
        /\ growth_data = None
        /\ metrics = <<>>

\* two series selected, both fetches failed, the run stopped
C3_Witness ==
    /\ pc = "stopped"
    /\ Len(selected_assets) = 2
    /\ Len(requests) = 2
    /\ successful_fetches = 0

\* the assets that st.warning reported as not fetched, in order
RECURSIVE FailedAssets(_)
FailedAssets(msgs) ==
    IF msgs = <<>> THEN <<>>
    ELSE IF Head(msgs).text = "could not fetch"
         THEN <<Head(msgs).asset>> \o FailedAssets(Tail(msgs))
         ELSE FailedAssets(Tail(msgs))

\* the assets of a sequence that are not in the set
RECURSIVE Without(_, _)
Without(assets, S) ==
    IF assets = <<>> THEN <<>>
    ELSE IF Head(assets) \in S THEN Without(Tail(assets), S)
    ELSE <<Head(assets)>> \o Without(Tail(assets), S)

\* the selected assets a fetched frame stands for
FetchedAssets ==
    {a \in Labels : \E k \in 1..Len(all_data) :
                        all_data[k].cols = << <<SeriesId(a)>> >>}

\* C4: every selected series is requested exactly once, in selection order,
\* whatever the earlier fetches returned; each failure is reported for its
\* own series only; the merged table has a column for exactly the series
\* whose fetch succeeded.
C4_FailureIsolation ==
    (pc # "key_check" /\ ~KeyMissing(api_key)) =>
        LET failed    == FailedAssets(messages)
            failedSet == {failed[i] : i \in 1..Len(failed)}
            tried     == SubSeq(selected_assets, 1, Len(requests))
            fetched   == Without(tried, failedSet)
        IN  /\ Len(requests) = idx - 1
            /\ pc # "fetch" => Len(requests) = Len(selected_assets)
            /\ \A k \in 1..Len(requests) :
                  /\ requests[k].series = SeriesId(selected_assets[k])
                  /\ requests[k].status # 200 => selected_assets[k] \in failedSet
            /\ failed = Without(tried, FetchedAssets)
            /\ Len(all_data) = Len(fetched)
            /\ \A k \in 1..Len(fetched) :
                  all_data[k].cols = << <<SeriesId(fetched[k])>> >>
            /\ successful_fetches = Len(all_data)
            /\ Merged => ColSet(fed_data.cols)
                           = {<<SeriesId(a)>> : a \in FetchedAssets}

\* the first selected series failed, the second was still fetched and is
\* the only column of the merged table
C4_Witness ==
    /\ Merged
    /\ Len(selected_assets) = 2
    /\ FailedAssets(messages) = <<selected_assets[1]>>
    /\ requests[1].status = 403
    /\ fed_data.cols = << <<SeriesId(selected_assets[2])>> >>

\* a decimal literal: digits and at most one point, at least one digit
WellFormed(s) ==
    /\ \A i \in 1..Len(s) : IsDigit(s[i]) \/ s[i] = "."
    /\ Cardinality({i \in 1..Len(s) : s[i] = "."}) <= 1
    /\ \E i \in 1..Len(s) : IsDigit(s[i])

\* the number of digits after the point
Decimals(s) ==
    IF \E i \in 1..Len(s) : s[i] = "."
    THEN Len(s) - (CHOOSE i \in 1..Len(s) : s[i] = ".")
    ELSE 0

\* x is the number the well-formed literal s denotes
Denotes(s, x) ==
    /\ IsFinite(x)
    /\ FMul(x, Num(Pow10(Decimals(s)))) = Num(DigitsVal(SelectSeq(s, IsDigit)))

\* the observations whose value string is numeric, by position
Parseable(observations) ==
    {i \in 1..Len(observations) : WellFormed(observations[i].value)}

\* C5: fetch_fred_data returns exactly the observations whose value parses,
\* each with its number; an observation that fails parsing (the sentinel
\* ".") is dropped, never emitted as zero; with no parseable observation
\* left it returns its no-data failure (None), not an empty table.
C5_UnparseableDropped ==
    (pc = "fetch" /\ response.net = "ok" /\ response.status = 200
        /\ response.json = "ok") =>
        LET obs  == response.observations
            good == Parseable(obs)
        IN  /\ ~WellFormed(<<".">>)
            /\ (df = None) <=> (good = {})
            /\ df # None =>
                 /\ Len(df.rows) = Cardinality(good)
                 /\ DatesOf(df) = {obs[i].date : i \in good}
                 /\ \A i \in good :
                      Denotes(obs[i].value,
                              RowOf(df, obs[i].date).vals[df.cols[1]])
                 /\ \A i, j \in 1..Len(df.rows) :
                       i < j => df.rows[i].date < df.rows[j].date

\* a reply with a parseable and an unparseable observation: the table has
\* fewer rows than the reply has observations
C5_Witness ==
    /\ pc = "fetch"
    /\ df # None
    /\ \E i \in 1..Len(response.observations) :
          response.observations[i].value = <<".">>
    /\ Len(df.rows) < Len(response.observations)

\* the row numbers of a frame
Rows(t) == 1..Len(t.rows)

\* C6: composition never yields an infinite or NaN percentage: in a row
\* whose Total Assets cell is zero or absent every composition cell is
\* absent; in every other row a non-total column with a present value has
\* the cell value / total * 100.
C6_CompositionOmitsUndefined ==
    comp_data # None =>
        \A i \in Rows(comp_data) :
            \A c \in ColSet(NonTotal(display_data.cols)) :
                LET total == display_data.rows[i].vals[TotalCol]
                    value == display_data.rows[i].vals[c]
                    pct   == comp_data.rows[i].vals[c \o <<"_pct">>]
                IN  /\ (IsZero(total) \/ IsNaN(total)) => IsNaN(pct)
                    /\ (~IsZero(total) /\ NotNa(total) /\ NotNa(value)) =>
                           /\ IsFinite(pct)
                           /\ FMul(pct, total) = FMul(value, Num(100))

\* C7: for every column and each lag L in {1, 52} the growth cell at row
\* index i (from 0) is present only when i >= L, row[i] and row[i-L] are
\* present and row[i-L] is non-zero, and is then
\* (row[i] - row[i-L]) / row[i-L] * 100; in every other case it is absent,
\* never zero or infinite.
C7_GrowthOmitsUndefined ==
    growth_data # None =>
        \A i \in Rows(growth_data) : \A c \in ColSet(display_data.cols) :
            \A L \in {WeeklyLag, AnnualLag} :
                LET cell == growth_data.rows[i].vals[
                              c \o <<IF L = WeeklyLag THEN "_weekly_growth"
                                     ELSE "_annual_growth">>]
                    defined ==
                        /\ i - 1 >= L
                        /\ NotNa(display_data.rows[i].vals[c])
                        /\ NotNa(display_data.rows[i - L].vals[c])
                        /\ ~IsZero(display_data.rows[i - L].vals[c])
                IN  IF defined
                    THEN /\ IsFinite(cell)
                         /\ FMul(cell, display_data.rows[i - L].vals[c])
                              = FMul(FSub(display_data.rows[i].vals[c],
                                          display_data.rows[i - L].vals[c]),
                                     Num(100))
                    ELSE IsNaN(cell)

\* the last two rows of the display table
LatestRow == display_data.rows[Len(display_data.rows)]
PrevRow == display_data.rows[Len(display_data.rows) - 1]

RECURSIVE Shown(_)
Shown(assets) ==
    IF assets = <<>> THEN <<>>
    ELSE IF <<Head(assets)>> \in ColSet(display_data.cols)
         THEN <<Head(assets)>> \o Shown(Tail(assets))
         ELSE Shown(Tail(assets))

C9_UnauthorizedDistinct ==
    \A k \in 1..Len(requests) :
        requests[k].status = 403 =>
            /\ k = Len(requests)
            /\ (pc = "fetch" /\ idx > 1) =>
                 \A r \in Responses :
                     r.status # 403 =>
                         fetch_fred_data(requests[k].series, api_key, r) # df

\* the frames of all in the order p
Permuted(all, p) == [i \in 1..Len(all) |-> all[p[i]]]

\* the same rows with the same value in every (timestamp, series) cell
SameCells(a, b) ==
    /\ Len(a.rows) = Len(b.rows)
    /\ ColSet(a.cols) = ColSet(b.cols)
    /\ \A i \in 1..Len(a.rows) :
          /\ a.rows[i].date = b.rows[i].date
          /\ \A c \in ColSet(a.cols) : a.rows[i].vals[c] = b.rows[i].vals[c]

\* C10: merging the fetched frames in any other order gives the same rows
\* with the same value in every (timestamp, series) cell.
C10_OrderIndependent ==
    Merged =>
        \A p \in Permutations(1..Len(all_data)) :
            SameCells(fed_data, MergeAll(Permuted(all_data, p)))

\* two frames with different timestamps, so that both orders have to fill
C10_Witness ==
    /\ Merged
    /\ Len(all_data) = 2
    /\ DatesOf(all_data[1]) \ DatesOf(all_data[2]) # {}
    /\ DatesOf(all_data[2]) \ DatesOf(all_data[1]) # {}
    /\ fed_data.cols = all_data[1].cols \o all_data[2].cols

\* C11: every fetch eventually completes even when the provider never
\* responds, so the fetch loop always reaches the stop condition or the
\* merge step.
C11_FetchLoopTerminates == (pc = "fetch") ~> (pc # "fetch")

\* the selected series the frame at position k of all_data was fetched for
FetchedFor(k) ==
    CHOOSE a \in ColSet(selected_assets) : all_data[k].cols = << <<SeriesId(a)>> >>

\* C12: the display table has the rows of the merged table in the same
\* order with the same dates; every present cell is the merged cell divided
\* by 1000 (once), every absent cell stays absent; each series-identifier
\* column carries the label of the selected series it was fetched for, the
\* columns in the order of the merged table.
C12_DisplayIsScaledImage ==
    display_data # None =>
        /\ Len(display_data.rows) = Len(fed_data.rows)
        /\ Len(display_data.cols) = Len(all_data)
        /\ \A k \in 1..Len(all_data) :
              /\ fed_data.cols[k] = all_data[k].cols[1]
              /\ display_data.cols[k] = <<FetchedFor(k)>>
        /\ \A i \in Rows(fed_data) :
              /\ display_data.rows[i].date = fed_data.rows[i].date
              /\ DOMAIN display_data.rows[i].vals = ColSet(display_data.cols)
              /\ \A k \in 1..Len(all_data) :
                    LET raw   == fed_data.rows[i].vals[fed_data.cols[k]]
                        shown == display_data.rows[i].vals[display_data.cols[k]]
                    IN  /\ IsNaN(raw) => IsNaN(shown)
                        /\ NotNa(raw) =>
                              /\ IsFinite(shown)
                              /\ FMul(shown, Num(1000)) = raw

\* two renamed columns, a non-zero cell and an absent cell
C12_Witness ==
    /\ display_data # None
    /\ Len(display_data.cols) = 2
    /\ display_data.cols[1] = <<"Treasury Securities">>
    /\ Len(display_data.rows) >= 2
    /\ \E i, j \in Rows(display_data) : \E c, e \in ColSet(display_data.cols) :
          /\ IsNaN(display_data.rows[i].vals[c])
          /\ IsFinite(display_data.rows[j].vals[e])
          /\ ~IsZero(display_data.rows[j].vals[e])

====
